---- MODULE Spec2Model ----
(***************************************************************************)
(* Model of shuffleFixService.ts.  Spec and FairSpec: the patched         *)
(* toggleShuffle, the progressive load controller that pulls the whole     *)
(* queue before it delegates to the original toggleShuffle.  PatchSpec:    *)
(* the activation sequence that patches the webpack modules, and the       *)
(* request rewriter it puts around XMLHttpRequest open.                    *)
(*                                                                         *)
(* One JavaScript task is one action: a call of the wrapped trigger runs   *)
(* up to its first await (or to its return), a poll wake-up runs from the  *)
(* await to the next await (or through the finally block), and the         *)
(* deadline timer callback runs whole.  The closure variables isLoading    *)
(* and loadingTimeout are shared by every call of the wrapper; the locals  *)
(* of one call that entered the loading branch are one entry of `session`. *)
(***************************************************************************)
EXTENDS Integers, FiniteSets, Sequences, TLC

\* ---- program constants --------------------------------------------------
MaxIterations == 200

\* line 13: const MAX_LIMIT = __MAX_LIMIT__; the ceiling is filled in when
\* the script is built, the model runs with a small one
MAX_LIMIT == 2

\* ---- bounds of the model ------------------------------------------------
\* calls of the wrapper that enter the loading branch during one run
MaxSessions == 2
\* pages the host still has to deliver at the start
MaxPages == 2
\* queue length up to which an endlessly growing collection is followed
MaxQueue == 3
\* modules in the webpack module cache
MaxModules == 2
\* runs of the activation sequence (lines 215-224) on one page
MaxInstalls == 2

Sessions == 1..MaxSessions

VARIABLES
    isLoading,       \* closure variable, line 74
    loadingTimeout,  \* closure variable, line 75: 0 is null, s the handle of session s's timer
    timer,           \* per session: state of the deadline timer it started
    session,         \* per session: the locals of that call and its position
    hasButton,       \* document.querySelector('.shuffleControl') finds an element
    shuffling,       \* the element carries the class m-shuffling
    disabled,        \* the element has pointerEvents 'none' / opacity 0.5
    host,            \* "paged": reports the end once all is delivered; "stalling": may
                     \* stop delivering without reporting it; "endless": grows forever
    pagesLeft,       \* pages the host will still deliver
    hasMore,         \* what hasMoreAhead() returns
    qlen,            \* queue.length
    callerArgs,      \* the argument list the page's callers pass to toggleShuffle
    ev               \* what the last task did (observation only)

\* The page the script is injected into (patch installation, lines 15-55,
\* 57-72, 183-224):
VARIABLES
    cache,           \* webpackRequire.c: per module its shape and what was patched
    xhrLayers,       \* wrappers stacked on window.XMLHttpRequest / xhr.open
    installs,        \* runs of the activation sequence so far
    scans,           \* those of them that found the webpack require function
    escaped,         \* an exception left the activation sequence
    lastOpen         \* the last xhr.open call: what came in, what reached the original

ctlVars == <<isLoading, loadingTimeout, timer, session, hasButton, shuffling,
             disabled, host, pagesLeft, hasMore, qlen, callerArgs, ev>>
patchVars == <<cache, xhrLayers, installs, scans, escaped, lastOpen>>

vars == <<isLoading, loadingTimeout, timer, session, hasButton, shuffling,
          disabled, host, pagesLeft, hasMore, qlen, callerArgs, ev,
          cache, xhrLayers, installs, scans, escaped, lastOpen>>

Min(a, b) == IF a < b THEN a ELSE b

\* ---- the locals of one call that reached line 112 ----------------------
\* pc: "unused" (no such call yet), "waiting" (suspended at the await of
\* line 148), "done" (the finally block has run).
\* pulls, iters, origCalls, cleanups and exit only observe the call:
\* pullNext calls made, loop bodies entered, originalToggleShuffle calls
\* made, times the exit actions ran for it, and how the loop ended.
NoSession ==
    [pc |-> "unused", waitIterations |-> 0, lastLength |-> 0, initialLength |-> 0,
     startPages |-> 0, pulls |-> 0, iters |-> 0, origCalls |-> 0, cleanups |-> 0,
     exit |-> "none", args |-> <<>>]

\* What the last task did.  args: the argument list of the call the task
\* belongs to; origArgs: the argument list it handed to the original
\* toggleShuffle; origLoading, origTimerPending, origDisabled: isLoading,
\* whether a deadline timer was pending, and the state of the control at
\* the moment the original toggleShuffle was called.
NoEv ==
    [op |-> "init", path |-> "none", s |-> 0, orig |-> 0, pull |-> 0,
     cleanup |-> 0, thrown |-> FALSE, locked |-> FALSE,
     args |-> <<>>, origArgs |-> <<>>,
     origLoading |-> FALSE, origTimerPending |-> FALSE, origDisabled |-> FALSE]

\* Argument lists the callers of a page may pass to toggleShuffle.  No test
\* of the wrapper reads them, so the long loops of a stalling host are
\* explored for calls without arguments only.
ArgLists == {<<>>, <<"arg">>}

Init ==
    /\ isLoading = FALSE
    /\ loadingTimeout = 0
    /\ timer = [s \in Sessions |-> "none"]
    /\ session = [s \in Sessions |-> NoSession]
    /\ hasButton \in BOOLEAN
    /\ shuffling \in (IF hasButton THEN BOOLEAN ELSE {FALSE})
    /\ disabled = FALSE
    /\ host \in {"paged", "stalling", "endless"}
    /\ pagesLeft \in (IF host = "endless" THEN {0} ELSE 0..MaxPages)
    /\ hasMore \in (IF host = "paged" THEN {pagesLeft > 0}
                    ELSE IF host = "endless" THEN {TRUE} ELSE BOOLEAN)
    /\ qlen = 0
    /\ callerArgs \in (IF host = "stalling" THEN {<<>>} ELSE ArgLists)
    /\ ev = NoEv
    /\ cache = <<>>
    /\ xhrLayers = 0
    /\ installs = 0
    /\ scans = 0
    /\ escaped = FALSE
    /\ lastOpen = [op |-> "none"]

\* ---- conditions of the wrapper, one definition per test of the code -----
\* Faulty variants of the conditions below: each is the condition with a
\* plausible slip.  The properties at the end of the module are expected to
\* fail when a condition is replaced by its variant.
IsShuffleActiveNever == FALSE
BusyNever(loading) == FALSE
AlreadyCompleteNever(more) == FALSE
LoopContinuesOffByOne(wi) == wi <= MaxIterations
StreamEndedNever(more) == FALSE
ClearTimeoutForgotten(tm, handle) == tm
RestoreControlForgotten(d) == d
ScanStopsAtThrow(threw) == ~threw
BelowCeilingAlways(n) == TRUE
CountIterationsStuck(wi, last, len) == IF len > last THEN 0 ELSE wi

\* line 79: shuffleButtonElement?.classList.contains('m-shuffling')
IsShuffleActive == hasButton /\ shuffling

\* line 86: if (isLoading) return
Busy(loading) == loading

\* line 101: if (!hasMore) -- the queue is already complete
AlreadyComplete(more) == ~more

\* line 131: while (waitIterations < 200)
LoopContinues(wi) == wi < MaxIterations

\* line 134: if (!hasMoreTracks) break
StreamEnded(more) == ~more

\* lines 150-157: the stagnation counter after a wake-up
CountIterations(wi, last, len) == IF len > last THEN 0 ELSE wi + 1

\* lines 150-152: lastLength after a wake-up
CountLastLength(last, len) == IF len > last THEN len ELSE last

\* lines 92-93 / 104-105: the style of the control, when there is one
DisableControl(d) == IF hasButton THEN TRUE ELSE d
RestoreControl(d) == IF hasButton THEN FALSE ELSE d

\* the host's original toggleShuffle flips the shuffle mode, which the host
\* shows as the class m-shuffling on the control
\* line 83: originalToggleShuffle.apply(this, arguments) hands on the
\* wrapper's argument list
ApplyArguments(args) == args

\* lines 107, 166: originalToggleShuffle.call(this) hands on no argument
CallThis(args) == <<>>

\* the state the original toggleShuffle finds when it is called
AtOriginal(r, passed) ==
    [r EXCEPT !.e.orig = 1, !.e.origArgs = passed,
              !.e.origLoading = r.c.isLoading,
              !.e.origTimerPending = (\E s \in Sessions : r.c.timer[s] = "pending"),
              !.e.origDisabled = r.c.disabled]

OriginalToggleShuffle(sh) == IF hasButton THEN ~sh ELSE sh

\* line 172: clearTimeout(loadingTimeout) cancels the timer the handle names
\* if it is still pending
ClearTimeout(tm, handle) ==
    IF handle = 0 THEN tm
    ELSE [tm EXCEPT ![handle] = IF @ = "pending" THEN "cleared" ELSE @]

\* ---- the host (environment of the wrapper) ------------------------------
\* moduleExports.pullNext(maxBatchSize), line 141, when it returns normally:
\* the host delivers d of the pages it has left (all of them if it has
\* fewer).  A paged host reports the end exactly when none is left.  A
\* stalling host, once nothing is left, delivers nothing more and keeps
\* answering hasMoreAhead() with true, unless it reports the end (ends).
\* An endless host delivers one more item at every pull and never reports
\* the end.
PullNext(c, d, ends) ==
    IF host = "endless"
    THEN [c EXCEPT !.qlen = @ + 1, !.hasMore = TRUE]
    ELSE LET n == Min(d, c.pagesLeft) IN
         [c EXCEPT !.pagesLeft = @ - n, !.qlen = @ + n,
                   !.hasMore = IF host = "paged" THEN (c.pagesLeft - n) > 0 ELSE ~ends]

\* what one pull can deliver, and whether a host call throws
Deliveries == 1..MaxPages
Throws == BOOLEAN

\* ---- the body of the wrapper, as functions of a task's running state ----
\* A running state r is [rec, c, e]: the locals of the call, the closure /
\* DOM / host state the task has produced so far, and the observation.
Cur ==
    [isLoading |-> isLoading, loadingTimeout |-> loadingTimeout, timer |-> timer,
     disabled |-> disabled, shuffling |-> shuffling,
     hasMore |-> hasMore, qlen |-> qlen, pagesLeft |-> pagesLeft]

\* lines 169-179: the finally block
Finally(r) ==
    [rec |-> [r.rec EXCEPT !.pc = "done", !.cleanups = @ + 1],
     c   |-> [r.c EXCEPT !.isLoading = FALSE,
                         !.timer = ClearTimeout(r.c.timer, r.c.loadingTimeout),
                         !.loadingTimeout = 0,
                         !.disabled = RestoreControl(@)],
     e   |-> [r.e EXCEPT !.cleanup = 1]]

\* lines 167-168: an exception inside the try block is caught and logged
CatchError(r) == Finally([r EXCEPT !.rec.exit = "error", !.e.path = "error"])

\* lines 160-166: after the loop, however it ended, the original
\* toggleShuffle is called; if it throws, the catch block swallows it
AfterLoop(r, kind, origThrows) ==
    Finally([AtOriginal(r, CallThis(r.e.args)) EXCEPT
                      !.rec.exit = kind, !.rec.origCalls = @ + 1,
                      !.e.path = kind,
                      !.c.shuffling = IF origThrows THEN @
                                      ELSE OriginalToggleShuffle(@)])

\* lines 131-148: from the loop test to the next await, or out of the loop;
\* the set of results over what the host calls of the pass can do
LoopStep(r) ==
    IF ~LoopContinues(r.rec.waitIterations)
    THEN {AfterLoop(r, "stagnation", ot) : ot \in Throws}
    ELSE LET r1 == [r EXCEPT !.rec.iters = @ + 1]
             r2 == [r1 EXCEPT !.rec.pulls = @ + 1, !.e.pull = 1]
         IN  \* hasMoreAhead() throws: line 132, caught at line 167
             {CatchError(r1)}
             \cup
             (IF StreamEnded(r1.c.hasMore)
              THEN {AfterLoop(r1, "hasMoreFalse", ot) : ot \in Throws}
              ELSE \* pullNext throws: lines 142-145
                   {AfterLoop(r2, "pullError", ot) : ot \in Throws}
                   \cup
                   {[r2 EXCEPT !.rec.pc = "waiting", !.e.path = "suspend",
                               !.c = PullNext(@, d, ends)] :
                        d \in Deliveries, ends \in BOOLEAN})

\* a task's result becomes the next state; s = 0: the task is no session's
Commit(s, r) ==
    /\ session' = IF s = 0 THEN session ELSE [session EXCEPT ![s] = r.rec]
    /\ isLoading' = r.c.isLoading
    /\ loadingTimeout' = r.c.loadingTimeout
    /\ timer' = r.c.timer
    /\ disabled' = r.c.disabled
    /\ shuffling' = r.c.shuffling
    /\ hasMore' = r.c.hasMore
    /\ qlen' = r.c.qlen
    /\ pagesLeft' = r.c.pagesLeft
    /\ ev' = r.e
    /\ UNCHANGED <<hasButton, host, callerArgs>>
    /\ UNCHANGED patchVars

\* lines 150-157, then the loop again: what a poll wake-up of s can do
WakeStep(s) ==
    LET rec == session[s] IN
    LoopStep([rec |-> [rec EXCEPT
                         !.waitIterations =
                             CountIterations(rec.waitIterations, rec.lastLength, qlen),
                         !.lastLength = CountLastLength(rec.lastLength, qlen)],
              c |-> Cur,
              e |-> [NoEv EXCEPT !.op = "wake", !.s = s, !.args = rec.args]])

\* The slot of the next call that enters the loading branch.  Loops on a
\* stalling or endless host can run for hundreds of polls, so they are
\* explored one at a time; on a paged host up to MaxSessions loops may
\* overlap.
FreeSlots == {s \in Sessions : session[s].pc = "unused"}
CanStart ==
    /\ FreeSlots # {}
    /\ host # "paged" => FreeSlots = Sessions
NewSlot == IF FreeSlots = {} THEN 0
           ELSE CHOOSE s \in FreeSlots : \A t \in FreeSlots : s <= t

\* lines 111-148: the lock, the deadline timer and the first pass of the loop
EnterLoading(s, r) ==
    LoopStep([rec |-> [NoSession EXCEPT !.lastLength = r.c.qlen,
                                        !.initialLength = r.c.qlen,
                                        !.startPages = r.c.pagesLeft,
                                        !.args = r.e.args],
              c |-> [r.c EXCEPT !.isLoading = TRUE, !.loadingTimeout = s,
                                !.timer = [@ EXCEPT ![s] = "pending"]],
              e |-> [r.e EXCEPT !.s = s, !.locked = TRUE]])

\* the original toggleShuffle called directly by the wrapper (lines 83, 107):
\* an exception leaves the wrapper
Delegate(r, path, passed, origThrows) ==
    [AtOriginal(r, passed) EXCEPT
              !.e.path = path, !.e.thrown = origThrows,
              !.c.shuffling = IF origThrows THEN @ ELSE OriginalToggleShuffle(@)]

\* lines 77-182 up to the first await or the return: what a call can do
TriggerStep(args) ==
    LET r0 == [rec |-> NoSession, c |-> Cur,
               e |-> [NoEv EXCEPT !.op = "trigger", !.args = args]] IN
    IF IsShuffleActive
    THEN \* lines 81-84
         {Delegate(r0, "toggleOff", ApplyArguments(args), ot) : ot \in Throws}
    ELSE IF Busy(isLoading)
    THEN \* lines 86-89
         {[r0 EXCEPT !.e.path = "busy"]}
    ELSE LET r1 == [r0 EXCEPT !.c.disabled = DisableControl(@)] IN
         \* line 96: getQueue() throws, or returns no queue
         {[r1 EXCEPT !.e.path = "queueThrows", !.e.thrown = TRUE],
          [r1 EXCEPT !.e.path = "noQueue"],
         \* line 99: hasMoreAhead() throws
          [r1 EXCEPT !.e.path = "hasMoreThrows", !.e.thrown = TRUE]}
         \cup
         (IF AlreadyComplete(hasMore)
          THEN \* lines 101-109
               {Delegate([r1 EXCEPT !.c.disabled = RestoreControl(@)], "complete",
                         CallThis(args), ot) : ot \in Throws}
          ELSE IF CanStart THEN EnterLoading(NewSlot, r1) ELSE {})

\* ---- actions -----------------------------------------------------------
\* A call of the wrapped moduleExports.toggleShuffle.
Trigger ==
    \E r \in TriggerStep(callerArgs) : Commit(r.e.s, r)

\* The poll timer of line 148 fires.
\* (an endlessly growing queue is followed up to MaxQueue items)
Wake(s) ==
    /\ session[s].pc = "waiting"
    /\ host = "endless" => qlen < MaxQueue
    /\ \E r \in WakeStep(s) : Commit(s, r)

\* The deadline timer of lines 114-121 fires.
TimerFire(s) ==
    /\ timer[s] = "pending"
    /\ timer' = [timer EXCEPT ![s] = "fired"]
    /\ isLoading' = FALSE
    /\ disabled' = RestoreControl(disabled)
    /\ session' = [session EXCEPT ![s].cleanups = @ + 1]
    /\ ev' = [NoEv EXCEPT !.op = "timer", !.s = s, !.cleanup = 1,
                          !.args = session[s].args]
    /\ UNCHANGED <<loadingTimeout, hasButton, shuffling, host, pagesLeft, hasMore, qlen,
                   callerArgs>>
    /\ UNCHANGED patchVars

Next ==
    \/ Trigger
    \/ \E s \in Sessions : Wake(s)
    \/ \E s \in Sessions : TimerFire(s)

Spec == Init /\ [][Next]_vars

\* Timers fire: a pending deadline timer (setTimeout of line 113) and the
\* poll timer of a suspended loop (setTimeout of line 148) are eventually
\* run by the event loop.
FairSpec ==
    Spec /\ \A s \in Sessions : WF_vars(TimerFire(s)) /\ WF_vars(Wake(s))

\* ======================================================================
\* Patch installation and the request rewriter
\* ======================================================================
\* ---- the module cache ----------------------------------------------------
\* The shape of a module's exports, as far as the scans look at it:
\* defaults: prototype.defaults.limit is defined (line 41); setLimit:
\* prototype.setLimit is a function (line 45); setup: states.shuffle.setup
\* exists (line 61); toggle: toggleShuffle and getQueue exist (line 72);
\* throwsCollections / throwsShuffle: reading the module throws during
\* patchCollections / patchShuffle (a throwing getter, lines 38, 59).
Shape(d, sl, su, tg, tc, ts) ==
    [defaults |-> d, setLimit |-> sl, setup |-> su, toggle |-> tg,
     throwsCollections |-> tc, throwsShuffle |-> ts]

Shapes ==
    { Shape(FALSE, FALSE, FALSE, FALSE, FALSE, FALSE),  \* no capability
      Shape(TRUE,  TRUE,  FALSE, FALSE, FALSE, FALSE),  \* a collection
      Shape(FALSE, FALSE, TRUE,  TRUE,  FALSE, FALSE),  \* the player
      Shape(FALSE, FALSE, FALSE, FALSE, TRUE,  TRUE),   \* throws in both scans
      Shape(FALSE, FALSE, TRUE,  TRUE,  TRUE,  FALSE) } \* the player, throws first

\* a module nothing has patched yet; defaultsLimit 0 is the host's own value
Unpatched(shape) ==
    [shape |-> shape, defaultsLimit |-> 0, maxPageSize |-> 0,
     setLimitLayers |-> 0, setLimitPatched |-> FALSE,
     setupLayers |-> 0, toggleLayers |-> 0, togglePatched |-> FALSE]

\* lines 37, 52 and 59, 185: the try/catch is inside the loop body, so the
\* loop goes on to the next module whether or not this one threw
ScanGoesOn(threw) == TRUE

\* lines 38-51: what patchCollections does to one module
PatchCollectionModule(m) ==
    LET m1 == IF m.shape.defaults
              THEN [m EXCEPT !.defaultsLimit = MAX_LIMIT, !.maxPageSize = MAX_LIMIT]
              ELSE m
    IN  IF m.shape.setLimit /\ ~m1.setLimitPatched
        THEN [m1 EXCEPT !.setLimitLayers = @ + 1, !.setLimitPatched = TRUE]
        ELSE m1

\* lines 59-72, 183-184: what patchShuffle does to one module; the wrap of
\* states.shuffle.setup tests no marker and sets none
PatchShuffleModule(m) ==
    LET m1 == IF m.shape.setup THEN [m EXCEPT !.setupLayers = @ + 1] ELSE m
    IN  IF m.shape.toggle /\ ~m1.togglePatched
        THEN [m1 EXCEPT !.toggleLayers = @ + 1, !.togglePatched = TRUE]
        ELSE m1

\* lines 34-55: patchCollections from module i on; threw: an exception left
\* the function
RECURSIVE PatchCollections(_, _)
PatchCollections(c, i) ==
    IF i > Len(c) THEN [cache |-> c, threw |-> FALSE]
    ELSE IF ~ScanGoesOn(c[i].shape.throwsCollections)
    THEN [cache |-> c, threw |-> TRUE]
    ELSE IF c[i].shape.throwsCollections
    THEN PatchCollections(c, i + 1)
    ELSE PatchCollections([c EXCEPT ![i] = PatchCollectionModule(@)], i + 1)

\* lines 57-187: patchShuffle from module i on
RECURSIVE PatchShuffle(_, _)
PatchShuffle(c, i) ==
    IF i > Len(c) THEN [cache |-> c, threw |-> FALSE]
    ELSE IF ~ScanGoesOn(c[i].shape.throwsShuffle)
    THEN [cache |-> c, threw |-> TRUE]
    ELSE IF c[i].shape.throwsShuffle
    THEN PatchShuffle(c, i + 1)
    ELSE PatchShuffle([c EXCEPT ![i] = PatchShuffleModule(@)], i + 1)

\* lines 189-213: patchXHR puts one more wrapper around window.XMLHttpRequest
\* (and so around the open of every request object); it tests no marker
PatchXHR(layers) == layers + 1

\* lines 215-224: the activation sequence; found: findWebpackRequire
\* returned the require function rather than null
Activate(c, layers, found) ==
    IF ~found
    THEN [cache |-> c, xhrLayers |-> PatchXHR(layers), escaped |-> FALSE]
    ELSE LET a == PatchCollections(c, 1) IN
         IF a.threw
         THEN [cache |-> a.cache, xhrLayers |-> layers, escaped |-> TRUE]
         ELSE LET b == PatchShuffle(a.cache, 1) IN
              IF b.threw
              THEN [cache |-> b.cache, xhrLayers |-> layers, escaped |-> TRUE]
              ELSE [cache |-> b.cache, xhrLayers |-> PatchXHR(layers),
                    escaped |-> FALSE]

\* ---- the request rewriter --------------------------------------------------
\* The url argument of xhr.open(method, url, ...args), as far as the wrapper
\* looks at it.  isString: typeof url === 'string' (a URL object is not);
\* hasApi: url.includes('api'); parses: new URL(url, origin) does not throw;
\* matches: the path pattern of line 198 matches; limitKind: what
\* searchParams.get('limit') returns: "none" (null), "empty" (''), "nan"
\* (text parseInt turns into NaN) or "num" (text parseInt turns into
\* limitNum); form: "asGiven", or "normalised" once it has been replaced by
\* urlObj.toString().
Url(s, a, p, m, k, n) ==
    [isString |-> s, hasApi |-> a, parses |-> p, matches |-> m,
     limitKind |-> k, limitNum |-> n, form |-> "asGiven"]

Urls ==
    \* strings that parse and match a collection path, with every kind of limit
    { Url(TRUE, a, TRUE, TRUE, k, 0) :
          a \in BOOLEAN, k \in {"none", "empty", "nan"} }
    \cup
    { Url(TRUE, a, TRUE, TRUE, "num", n) :
          a \in BOOLEAN, n \in 0..(MAX_LIMIT + 1) }
    \cup
    \* strings that match no collection path, strings new URL() rejects, and
    \* URL objects, each with a limit below the ceiling
    { Url(TRUE, a, TRUE, FALSE, "num", 0) : a \in BOOLEAN }
    \cup
    { Url(TRUE, a, FALSE, TRUE, "num", 0) : a \in BOOLEAN }
    \cup
    { Url(FALSE, TRUE, TRUE, TRUE, "num", 0) }

\* method and remaining arguments (async, user, password) of an open call
OpenCalls ==
    { [method |-> "GET", rest |-> <<>>],
      [method |-> "POST", rest |-> <<TRUE, "user">>] }

\* line 200: currentLimit && ...: null and '' are falsy
Truthy(k) == k \notin {"none", "empty"}

\* line 200: parseInt(currentLimit) < MAX_LIMIT, for a limit parseInt reads
\* as the number n (NaN < MAX_LIMIT is false)
BelowCeiling(n) == n < MAX_LIMIT

\* lines 194-206: one wrapper's treatment of the url
RewriteUrl(u) ==
    IF ~(u.isString /\ u.hasApi) THEN u
    ELSE IF ~u.parses THEN u                       \* caught at line 205
    ELSE IF ~u.matches THEN u
    ELSE IF Truthy(u.limitKind) /\ u.limitKind = "num" /\ BelowCeiling(u.limitNum)
    THEN [u EXCEPT !.limitNum = MAX_LIMIT, !.form = "normalised"]
    ELSE u

\* each wrapper hands its url to the open below it (line 207)
RECURSIVE RewriteThrough(_, _)
RewriteThrough(u, layers) ==
    IF layers = 0 THEN u ELSE RewriteThrough(RewriteUrl(u), layers - 1)

\* ---- actions ---------------------------------------------------------------
PatchInit ==
    /\ isLoading = FALSE
    /\ loadingTimeout = 0
    /\ timer = [s \in Sessions |-> "none"]
    /\ session = [s \in Sessions |-> NoSession]
    /\ hasButton = FALSE
    /\ shuffling = FALSE
    /\ disabled = FALSE
    /\ host = "paged"
    /\ pagesLeft = 0
    /\ hasMore = FALSE
    /\ qlen = 0
    /\ callerArgs = <<>>
    /\ ev = NoEv
    /\ cache \in [1..MaxModules -> {Unpatched(sh) : sh \in Shapes}]
    /\ xhrLayers = 0
    /\ installs = 0
    /\ scans = 0
    /\ escaped = FALSE
    /\ lastOpen = [op |-> "none"]

\* The injected script runs (lines 12-225).
Install ==
    /\ installs < MaxInstalls
    /\ \E found \in BOOLEAN :
          LET r == Activate(cache, xhrLayers, found) IN
          /\ cache' = r.cache
          /\ xhrLayers' = r.xhrLayers
          /\ escaped' = (escaped \/ r.escaped)
          /\ scans' = IF found THEN scans + 1 ELSE scans
    /\ installs' = installs + 1
    /\ UNCHANGED lastOpen
    /\ UNCHANGED ctlVars

\* The page opens a request: xhr.open(method, url, ...args) on an object
\* made by the current window.XMLHttpRequest.
Open ==
    /\ \E call \in OpenCalls, u \in Urls :
          lastOpen' = [op |-> "open", layers |-> xhrLayers,
                       method |-> call.method, url |-> u, rest |-> call.rest,
                       outMethod |-> call.method,
                       outUrl |-> RewriteThrough(u, xhrLayers),
                       outRest |-> call.rest]
    /\ UNCHANGED <<cache, xhrLayers, installs, scans, escaped>>
    /\ UNCHANGED ctlVars

PatchNext ==
    \/ Install
    \/ Open

PatchSpec == PatchInit /\ [][PatchNext]_vars

\* ======================================================================
\* Properties
\* ======================================================================
Running == {s \in Sessions : session[s].pc = "waiting"}
Started == {s \in Sessions : session[s].pc # "unused"}
Ended   == {s \in Sessions : session[s].pc = "done"}

\* C1: at most one loading session (a poll loop that has entered Loading
\* and has not yet run its cleanup) exists in any reachable state.
C1_SingleFlight == Cardinality(Running) <= 1

\* C2: for every session that entered Loading and has reached a terminal
\* state, the exit actions (isLoading=false, control restored) have been
\* performed exactly once for that session.
C2_CleanupExactlyOnce ==
    \A s \in Ended : session[s].cleanups = 1

\* C3: once the deadline timer of a session has fired while its loop is
\* suspended at the poll wait, that loop makes no further pull-next call:
\* it exits at its next wake-up.
C3_TimeoutForcesExit ==
    [][\A s \in Sessions :
          (timer[s] = "fired" /\ session[s].pc = "waiting")
              => /\ session'[s].pulls = session[s].pulls
                 /\ (session'[s] # session[s] => session'[s].pc = "done")]_vars

\* C4: a loading session whose loop ended on stagnation (200 polls in a
\* row without growth), or whose deadline timer fired before the loop
\* ended, never invokes the original toggleShuffle.
C4_OriginalOnlyOnCompleted ==
    \A s \in Sessions :
        (session[s].exit = "stagnation" \/ timer[s] = "fired")
            => session[s].origCalls = 0

\* C5: when pull-next throws, the session is aborted: the original
\* toggleShuffle is not invoked, the session ends with the lock released
\* and the control restored, and nothing is thrown out of the wrapper.
C5_PullFailureAborts ==
    \A s \in Sessions :
        session[s].exit = "pullError"
            => /\ session[s].origCalls = 0
               /\ session[s].pc = "done"
               /\ session[s].cleanups >= 1
               /\ (ev.s = s /\ ev.path = "pullError"
                       => ~ev.thrown /\ ~isLoading /\ (hasButton => ~disabled))

\* C6: on a collection whose hasMore becomes false after at most N pulls
\* (a paged host with N pages left when the session starts), a session
\* makes at most N pull-next calls, is out of its loop after at most N+1
\* iterations, and when the loop ends on hasMore=false the original
\* toggleShuffle has been invoked exactly once.
C6_TerminationOnCompletion ==
    host = "paged" =>
        \A s \in Started :
            /\ session[s].pulls <= session[s].startPages
            /\ session[s].iters <= session[s].startPages + 1
            /\ (session[s].pc = "waiting" => session[s].iters <= session[s].startPages)
            /\ (session[s].exit = "hasMoreFalse" => session[s].origCalls = 1)
            /\ session[s].exit # "stagnation"

C6_Witness ==
    \E s \in Ended :
        /\ host = "paged"
        /\ session[s].startPages >= 2
        /\ session[s].exit = "hasMoreFalse"
        /\ session[s].pulls = session[s].startPages
        /\ session[s].iters = session[s].startPages + 1
        /\ session[s].origCalls = 1

\* C7: the stagnation counter stays within 0..200; a session that never
\* saw the queue grow makes at most 200 pull-next calls, and when its loop
\* ends on stagnation it has made exactly 200.
C7_StagnationBound ==
    \A s \in Sessions :
        /\ session[s].waitIterations \in 0..200
        /\ (session[s].lastLength = session[s].initialLength
                => session[s].pulls <= 200)
        /\ (session[s].exit = "stagnation"
              /\ session[s].lastLength = session[s].initialLength
                => session[s].pulls = 200)

C7_Witness ==
    \E s \in Ended :
        /\ session[s].exit = "stagnation"
        /\ session[s].lastLength = session[s].initialLength
        /\ session[s].pulls = 200
        /\ session[s].waitIterations = 200

\* C8: a trigger that finds shuffle inactive, the lock free and a queue
\* with hasMore=false takes the short-circuit: it never sets isLoading,
\* starts no deadline timer and no session, makes no pull-next call,
\* invokes the original toggleShuffle exactly once and leaves the control
\* enabled.
C8_AlreadyCompleteShortCircuit ==
    [][(/\ ev'.op = "trigger"
        /\ ev'.path \notin {"queueThrows", "noQueue", "hasMoreThrows"}
        /\ ~(hasButton /\ shuffling)
        /\ ~isLoading
        /\ ~hasMore)
         => /\ ev'.path = "complete"
            /\ ev'.orig = 1
            /\ ev'.pull = 0
            /\ ~ev'.locked
            /\ ~isLoading'
            /\ UNCHANGED <<loadingTimeout, timer, session>>
            /\ (hasButton => ~disabled')]_vars

C8_Witness ==
    /\ ev.op = "trigger"
    /\ ev.path = "complete"
    /\ ev.orig = 1
    /\ hasButton
    /\ ~disabled
    /\ ~isLoading

\* C9: a trigger with shuffle inactive that arrives while isLoading=true
\* changes nothing: lock, deadline timer, session locals, control and host
\* state are unchanged, and it makes no pull-next call, no original
\* toggleShuffle call and no cleanup.
C9_BusyRejectionNoOp ==
    [][(/\ ev'.op = "trigger"
        /\ ~(hasButton /\ shuffling)
        /\ isLoading)
         => /\ ev'.path = "busy"
            /\ ev'.orig = 0
            /\ ev'.pull = 0
            /\ ev'.cleanup = 0
            /\ ~ev'.thrown
            /\ UNCHANGED <<isLoading, loadingTimeout, timer, session, disabled,
                           shuffling, hasMore, qlen, pagesLeft>>]_vars

C9_Witness ==
    /\ ev.op = "trigger"
    /\ ev.path = "busy"
    /\ isLoading
    /\ hasButton
    /\ disabled
    /\ Running # {}

\* C10: a trigger that arrives while shuffle is active delegates to the
\* original toggleShuffle exactly once and leaves isLoading, the deadline
\* timer, the sessions and the control's disabled state unchanged, with no
\* pull-next call, also while a loading session is in progress.
C10_ToggleOffBypass ==
    [][(/\ ev'.op = "trigger"
        /\ hasButton /\ shuffling)
         => /\ ev'.path = "toggleOff"
            /\ ev'.orig = 1
            /\ ev'.pull = 0
            /\ ev'.cleanup = 0
            /\ UNCHANGED <<isLoading, loadingTimeout, timer, session, disabled>>]_vars

C10_Witness ==
    /\ ev.op = "trigger"
    /\ ev.path = "toggleOff"
    /\ ev.orig = 1
    /\ Running # {}

\* C16: within one session the loop makes at most 200 pull-next calls in
\* total, the polls in which the queue grew included.
C16_TotalPollBudget ==
    \A s \in Sessions : session[s].pulls <= 200

\* C16, amended: the cap of 200 bounds the polls in a row without growth,
\* not the polls of the session: every observed growth starts the count
\* again, so a session makes at most 200 pull-next calls per growth it has
\* observed plus 200, and that can be more than 200.
C16_PollsPerGrowth ==
    \A s \in Sessions :
        session[s].pulls
            <= 200 * (session[s].lastLength - session[s].initialLength + 1)

C16_Witness ==
    \E s \in Ended :
        /\ session[s].exit = "stagnation"
        /\ session[s].lastLength > session[s].initialLength
        /\ session[s].pulls > 200

\* C17: the exit of one session never releases the lock, re-enables the
\* control or cancels the deadline timer of a different session that is
\* still loading (suspended in its loop, its own deadline still pending).
C17_NoCrossSessionInterference ==
    [][\A s, t \in Sessions :
          (/\ s # t
           /\ session[s].pc = "waiting" /\ session'[s].pc = "done"
           /\ session[t].pc = "waiting" /\ timer[t] = "pending")
          => /\ isLoading' = isLoading
             /\ timer'[t] = timer[t]
             /\ disabled' = disabled]_vars

\* C19: whenever no call is in its loading branch (no loop is suspended and
\* the lock is free) the control is enabled; in particular after a call for
\* which the queue accessor returned no queue, or for which reading the
\* queue or hasMore threw.
C19_ControlNeverStranded ==
    (hasButton /\ Running = {} /\ ~isLoading) => ~disabled

\* C20: between tasks a deadline timer is pending exactly when isLoading
\* is true.
C20_LockAndTimerAgree ==
    isLoading <=> (\E s \in Sessions : timer[s] = "pending")

C20_Witness ==
    \E s, t \in Sessions :
        /\ s # t
        /\ session[s].pc = "done" /\ timer[s] = "fired"
        /\ session[t].pc = "waiting" /\ timer[t] = "cleared"
        /\ ~isLoading

\* C14: wherever the wrapper calls the original toggleShuffle (toggle-off,
\* already complete, after the loop) it hands on the argument list it was
\* called with.
C14_ArgumentTransparency ==
    ev.orig = 1 => ev.origArgs = ev.args

\* C18: when a session whose loop ended on hasMore = false calls the
\* original toggleShuffle, the exit actions have already run: no deadline
\* timer is pending, isLoading is false and the control is enabled.
C18_CleanupPrecedesDelegation ==
    (ev.op \in {"trigger", "wake"} /\ ev.path = "hasMoreFalse" /\ ev.orig = 1)
        => /\ ~ev.origTimerPending
           /\ ~ev.origLoading
           /\ ~ev.origDisabled

\* C13: if timers fire and poll wake-ups run, every state in which
\* isLoading is true is followed by a state in which isLoading is false
\* and the control is enabled, whatever the collection does, also when it
\* grows forever without reporting the end.
C13_LockEventuallyReleased ==
    isLoading ~> (~isLoading /\ (hasButton => ~disabled))

C13_Witness ==
    \E s \in Sessions :
        /\ host = "endless" /\ hasButton
        /\ session[s].pc = "waiting" /\ timer[s] = "fired"
        /\ session[s].lastLength > session[s].initialLength
        /\ ~isLoading /\ ~disabled


\* C11: after the activation sequence has run twice over the same module
\* cache, every function it wraps (setLimit, states.shuffle.setup,
\* toggleShuffle, the request open) carries exactly one wrapper layer.
C11_IdempotentInstallation ==
    installs >= 2 =>
        /\ xhrLayers <= 1
        /\ \A i \in DOMAIN cache :
              /\ cache[i].setLimitLayers <= 1
              /\ cache[i].setupLayers <= 1
              /\ cache[i].toggleLayers <= 1

\* C12: an open call whose address is a parsable string that matches a
\* collection path and carries a numeric limit reaches the original open
\* with limit = max(limit, ceiling); any other address, the method and the
\* remaining arguments reach it unchanged.
C12_RewriteCorrectness ==
    (lastOpen.op = "open" /\ lastOpen.layers >= 1
       /\ lastOpen.url.isString /\ lastOpen.url.parses)
    => /\ lastOpen.outMethod = lastOpen.method
       /\ lastOpen.outRest = lastOpen.rest
       /\ IF lastOpen.url.matches /\ lastOpen.url.limitKind = "num"
          THEN lastOpen.outUrl.limitNum
                  = (IF lastOpen.url.limitNum < MAX_LIMIT
                     THEN MAX_LIMIT ELSE lastOpen.url.limitNum)
          ELSE lastOpen.outUrl = lastOpen.url

\* C12, amended: the limit is raised only when the address is a string
\* that contains 'api', parses, matches a collection path and carries a
\* limit that reads as a number: it then reaches the original open as
\* max(limit, ceiling), and an address whose limit is at or above the
\* ceiling is not touched at all.  Every other address (no 'api' in it, not
\* a string, unparsable, no match, no limit, an empty or non-numeric limit)
\* reaches the original open unchanged, as do the method and the remaining
\* arguments in every case.
C12_RewriteOnlyApiAddresses ==
    (lastOpen.op = "open" /\ lastOpen.layers >= 1)
    => /\ lastOpen.outMethod = lastOpen.method
       /\ lastOpen.outRest = lastOpen.rest
       /\ IF /\ lastOpen.url.isString /\ lastOpen.url.hasApi
             /\ lastOpen.url.parses /\ lastOpen.url.matches
             /\ lastOpen.url.limitKind = "num"
          THEN /\ lastOpen.outUrl.limitNum
                     = (IF lastOpen.url.limitNum < MAX_LIMIT
                        THEN MAX_LIMIT ELSE lastOpen.url.limitNum)
               /\ (lastOpen.url.limitNum >= MAX_LIMIT
                     => lastOpen.outUrl = lastOpen.url)
          ELSE lastOpen.outUrl = lastOpen.url

C12_Witness ==
    /\ lastOpen.op = "open" /\ lastOpen.layers = 2
    /\ lastOpen.url.isString /\ lastOpen.url.hasApi
    /\ lastOpen.url.parses /\ lastOpen.url.matches
    /\ lastOpen.url.limitKind = "num" /\ lastOpen.url.limitNum < MAX_LIMIT
    /\ lastOpen.outUrl.limitNum = MAX_LIMIT
    /\ lastOpen.rest # <<>>

\* C15: an exception raised by one module of the cache never leaves the
\* activation sequence and never keeps a later (or earlier) module that
\* matches a capability shape from being patched; the request rewriter is
\* installed by every run of the sequence, also when the webpack require
\* function was not found.
C15_PerCandidateIsolation ==
    /\ ~escaped
    /\ xhrLayers = installs
    /\ scans >= 1 =>
         \A i \in DOMAIN cache :
            LET m == cache[i] IN
            /\ (m.shape.defaults /\ ~m.shape.throwsCollections)
                  => m.defaultsLimit = MAX_LIMIT /\ m.maxPageSize = MAX_LIMIT
            /\ (m.shape.setLimit /\ ~m.shape.throwsCollections)
                  => m.setLimitPatched /\ m.setLimitLayers = 1
            /\ (m.shape.setup /\ ~m.shape.throwsShuffle) => m.setupLayers = scans
            /\ (m.shape.toggle /\ ~m.shape.throwsShuffle)
                  => m.togglePatched /\ m.toggleLayers = 1

C15_Witness ==
    /\ scans >= 1 /\ xhrLayers = installs /\ ~escaped
    /\ \E i, j \in DOMAIN cache :
          /\ i < j
          /\ cache[i].shape.throwsCollections /\ cache[i].shape.throwsShuffle
          /\ cache[j].shape.toggle /\ cache[j].togglePatched

====
